---- MODULE Spec2Model ----
(***************************************************************************)
(* Model of ChampuMusic/platforms/Youtube.py: the YouTubeAPI adapter.      *)
(* Strings are sequences of one-character strings, so that slicing, the    *)
(* regular-expression search and the duration formatting are computed      *)
(* character by character as the Python code computes them.                *)
(***************************************************************************)
EXTENDS Integers, Sequences, FiniteSets, TLC

VARIABLES
  pc,               \* position of the API-backed call in flight
  op,               \* which method the caller invoked
  vid_id,           \* details: the resolved video id
  limit,            \* playlist: the caller's limit
  query_type,       \* slider: the caller's result index
  plSize,           \* the number of items of the playlist the link names
  playlist_id,      \* playlist: the id extracted from the link
  result,           \* playlist: the list being collected
  next_page_token,  \* playlist: the continuation token (0 is None)
  calls,            \* the requests issued to the hosted API, in order
  ret,              \* what the call returned
  raised,           \* the exception that escaped the call ("" when none)
  logged,           \* the error an except clause caught and printed ("" when none)
  searchResp,       \* the hosted API's response to search().list
  response,         \* the hosted API's last response to videos().list or playlistItems().list
  message_1,        \* url: the message handed to url()
  urlRet,           \* url: what url() returned
  exUrl,            \* _extract_id_from_url: its argument
  exRet,            \* _extract_id_from_url: its result
  duration_iso,     \* details: contentDetails.duration of the item
  duration_sec,     \* details: duration in seconds
  duration_min,     \* details: the rendered duration
  fs,               \* download: the files under downloads/
  dlPrev,           \* download: the call before the last one
  dlLast,           \* download: the last call
  step              \* which pure function has been applied ("" when none)

apiVars == <<pc, op, vid_id, limit, query_type, plSize, playlist_id, result,
             next_page_token, calls, ret, raised, logged, searchResp, response>>
urlVars == <<message_1, urlRet>>
exVars == <<exUrl, exRet>>
durVars == <<duration_iso, duration_sec, duration_min>>
dlVars == <<fs, dlPrev, dlLast>>
vars == <<apiVars, urlVars, exVars, durVars, dlVars, step>>

----------------------------------------------------------------------------
(* Characters and strings *)

Digits == <<"0", "1", "2", "3", "4", "5", "6", "7", "8", "9">>

\* the character class [0-9A-Za-z_-] of the id pattern
IdChars ==
  {"0", "1", "2", "3", "4", "5", "6", "7", "8", "9",
   "A", "B", "C", "D", "E", "F", "G", "H", "I", "J", "K", "L", "M",
   "N", "O", "P", "Q", "R", "S", "T", "U", "V", "W", "X", "Y", "Z",
   "a", "b", "c", "d", "e", "f", "g", "h", "i", "j", "k", "l", "m",
   "n", "o", "p", "q", "r", "s", "t", "u", "v", "w", "x", "y", "z",
   "_", "-"}

\* {11}: the length of the captured id
IdLen == 11

Min(a, b) == IF a < b THEN a ELSE b

\* Python's s[lo:hi] for 0 <= lo, 0 <= hi (0-based, clamped to the string)
Slice(s, lo, hi) == SubSeq(s, lo + 1, Min(hi, Len(s)))

\* whether sub occurs in s at 1-based position i
OccursAt(s, sub, i) ==
  /\ i >= 1
  /\ i + Len(sub) - 1 <= Len(s)
  /\ \A k \in 1..Len(sub) : s[i + k - 1] = sub[k]

\* Python's s.find(sub), 1-based; 0 when sub does not occur
Find(s, sub) ==
  IF \E i \in 1..Len(s) : OccursAt(s, sub, i)
  THEN CHOOSE i \in 1..Len(s) :
         /\ OccursAt(s, sub, i)
         /\ \A j \in 1..(i - 1) : ~OccursAt(s, sub, j)
  ELSE 0

----------------------------------------------------------------------------
(* _extract_id_from_url *)

\* where group 1 starts when (?:v=|\/) matches at i; 0 when it does not
GroupStart(s, i) ==
  IF OccursAt(s, <<"v", "=">>, i) THEN i + 2
  ELSE IF OccursAt(s, <<"/">>, i) THEN i + 1
  ELSE 0

\* the pattern (?:v=|\/)([0-9A-Za-z_-]{11}).* matches starting at i
PatternAt(s, i) ==
  LET g == GroupStart(s, i) IN
    /\ g # 0
    /\ g + IdLen - 1 <= Len(s)
    /\ \A k \in g..(g + IdLen - 1) : s[k] \in IdChars

\* re.search: the leftmost position where the pattern matches; 0 when none
re_search(s) ==
  IF \E i \in 1..Len(s) : PatternAt(s, i)
  THEN CHOOSE i \in 1..Len(s) :
         /\ PatternAt(s, i)
         /\ \A j \in 1..(i - 1) : ~PatternAt(s, j)
  ELSE 0

extract_id_from_url(url) ==
  LET query == re_search(url) IN
    IF query # 0
    THEN LET g == GroupStart(url, query) IN SubSeq(url, g, g + IdLen - 1)
    ELSE url

----------------------------------------------------------------------------
(* details: the duration conversion *)

\* isodate.parse_duration(...).total_seconds() of P<d>DT<h>H<m>M<s>S
parse_duration(iso) == iso.d * 86400 + iso.h * 3600 + iso.m * 60 + iso.s

RECURSIVE Decimal(_)
\* str(n) for n >= 0
Decimal(n) ==
  IF n < 10 THEN <<Digits[n + 1]>>
  ELSE Decimal(n \div 10) \o <<Digits[(n % 10) + 1]>>

\* the format specification 02d: at least two digits, zero-padded
Format02d(n) == IF n < 10 THEN <<"0">> \o Decimal(n) ELSE Decimal(n)

FormatDurationBadDivmod(sec) ==
  LET s == sec % 60
      m == (sec \div 60) % 60
      h == sec \div 3600
  IN IF h > 0
     THEN Format02d(h) \o <<":">> \o Format02d(s) \o <<":">> \o Format02d(m)
     ELSE Format02d(m) \o <<":">> \o Format02d(s)

\* m, s = divmod(sec, 60); h, m = divmod(m, 60); the two f-strings
FormatDuration(sec) ==
  LET s == sec % 60
      m0 == sec \div 60
      h == m0 \div 60
      m == m0 % 60
  IN IF h > 0
     THEN Format02d(h) \o <<":">> \o Format02d(m) \o <<":">> \o Format02d(s)
     ELSE Format02d(m) \o <<":">> \o Format02d(s)

----------------------------------------------------------------------------
(* url *)

\* Python's None, where a string or a tuple is expected
None == <<"None">>

\* offset = None
NoOffset == 0 - 1

\* the truth value Python gives an offset: None and 0 are false
Truthy(offset) == offset # NoOffset /\ offset # 0

FirstOfAnyType(entities, type) == IF entities # <<>> THEN 1 ELSE 0

\* the index of the first entity of the given type; 0 when there is none
\* (the for loops over entities, with their break or return)
FirstOfType(entities, type) ==
  IF \E k \in 1..Len(entities) : entities[k].type = type
  THEN CHOOSE k \in 1..Len(entities) :
         /\ entities[k].type = type
         /\ \A j \in 1..(k - 1) : entities[j].type # type
  ELSE 0

RECURSIVE UrlLoop(_, _, _, _, _)
\* the loop over messages, from message i on, and the two lines after it
UrlLoop(messages, i, text, offset, length) ==
  IF i > Len(messages) \/ Truthy(offset)
  THEN IF offset = NoOffset THEN None ELSE Slice(text, offset, offset + length)
  ELSE LET message == messages[i] IN
    IF message.entities # <<>>
    THEN LET k == FirstOfType(message.entities, "URL") IN
           IF k # 0
           THEN UrlLoop(messages, i + 1, message.text,
                        message.entities[k].offset, message.entities[k].length)
           ELSE UrlLoop(messages, i + 1, text, offset, length)
    ELSE IF message.caption_entities # <<>>
    THEN LET k == FirstOfType(message.caption_entities, "TEXT_LINK") IN
           IF k # 0
           THEN message.caption_entities[k].url
           ELSE UrlLoop(messages, i + 1, text, offset, length)
    ELSE UrlLoop(messages, i + 1, text, offset, length)

url(m) == UrlLoop(<<m>> \o m.reply_to_message, 1, <<>>, NoOffset, NoOffset)

----------------------------------------------------------------------------
(* The hosted API (youtube_client) and the values the calls return *)

\* a call that returned None
RetNone == [kind |-> "None"]

\* no call has returned yet
RetPending == [kind |-> "pending"]

NoResponse == [status |-> "none"]

HttpError == [status |-> "HttpError"]

IdA == <<"d", "Q", "w", "4", "w", "9", "W", "g", "X", "c", "Q">>

IdB == <<"a", "b", "c", "d", "e", "f", "g", "h", "i", "j", "k">>

\* the number of results a search response carries is 0..NumResults
NumResults == 3

\* the limits a caller passes to playlist are MinLimit..MaxLimit
MaxLimit == 52

MinLimit == 0 - 1

\* the playlists have 0..MaxItems items
MaxItems == 53

\* maxResults=10 of the search request
SearchMaxResults == 10

\* the page size cap of playlistItems().list
PageCap == 50

\* the video id of the i-th result of a search
SearchVid(i) == [k \in 1..IdLen |-> Digits[i + 1]]

\* the videos the hosted API knows
Videos == {IdA} \cup {SearchVid(i) : i \in 1..(NumResults + 1)}

\* the durations the hosted API reports (PT45S, PT2M5S, PT1H1M1S)
SampleDurations ==
  {[d |-> 0, h |-> 0, m |-> 0, s |-> 45],
   [d |-> 0, h |-> 0, m |-> 2, s |-> 5],
   [d |-> 0, h |-> 1, m |-> 1, s |-> 1]}

\* the responses videos().list(id=...).execute() can give
VideosResponses(id) ==
  {HttpError, [status |-> "ok", items |-> <<>>]} \cup
  (IF id \in Videos
   THEN {[status |-> "ok",
          items |-> <<[title |-> [src |-> "videos.list", id |-> id],
                       duration |-> iso,
                       thumbnails |-> keys]>>] :
           iso \in SampleDurations, keys \in {{"default"}, {"default", "high"}}}
   ELSE {})

\* the responses search().list(...).execute() can give
SearchResponses ==
  {HttpError} \cup
  {[status |-> "ok",
    items |-> [i \in 1..n |-> [videoId |-> SearchVid(i),
                               title |-> [src |-> "search.list", id |-> SearchVid(i)]]]] :
     n \in 0..Min(NumResults, SearchMaxResults)}

\* the video id of the item at position i of a playlist
PlaylistVid(i) == i

\* the responses playlistItems().list(maxResults, pageToken).execute() can give
\* for a playlist of n items: a page starts at the token's position, carries at
\* most maxResults items, and carries a token while items remain (the
\* pagination may also end early)
PlaylistResponses(n, maxResults, pageToken) ==
  LET pos == IF pageToken = 0 THEN 1 ELSE pageToken
      full == Min(maxResults, n - pos + 1)
      sizes == {full} \cup (IF full > 1 THEN {full - 1} ELSE {})
  IN {HttpError} \cup
     UNION {{[status |-> "ok",
              items |-> [i \in 1..k |-> PlaylistVid(pos + i - 1)],
              nextPageToken |-> t] :
               t \in {0} \cup (IF pos + k <= n /\ k > 0 THEN {pos + k} ELSE {})} :
            k \in {x \in sizes : x >= 0}}

----------------------------------------------------------------------------
(* details *)

\* what details returns for the response to its lookup
DetailsResult(resp, id) ==
  IF resp.status = "HttpError" \/ resp.items = <<>>
  THEN RetNone
  ELSE LET item == resp.items[1]
           sec == parse_duration(item.duration)
       IN [kind |-> "tuple",
           title |-> item.title,
           duration_min |-> FormatDuration(sec),
           duration_sec |-> sec,
           thumbnail |-> [key |-> IF "high" \in item.thumbnails
                                  THEN "high" ELSE "default",
                          id |-> id],
           vid_id |-> id]

\* the (link, videoid) pairs a caller passes to details
DetailsInputs ==
  {[link |-> IdA, videoid |-> TRUE],
   [link |-> IdB, videoid |-> TRUE],
   [link |-> <<"h", "t", "t", "p", "s", ":", "/", "/", "y", "o", "u", "t", "u", ".", "b", "e", "/">> \o IdA, videoid |-> FALSE],
   [link |-> <<"h", "t", "t", "p", "s", ":", "/", "/", "w", "w", "w", ".", "y", "o", "u", "t", "u", "b", "e", ".", "c", "o", "m", "/", "w", "a", "t", "c", "h", "?", "v", "=">> \o IdA, videoid |-> FALSE],
   [link |-> <<"h", "e", "l", "l", "o">>, videoid |-> FALSE]}

\* details, up to its request
CallDetails(in) ==
  /\ pc = "idle"
  /\ op' = "details"
  /\ vid_id' = IF in.videoid THEN in.link ELSE extract_id_from_url(in.link)
  /\ pc' = "details"
  /\ UNCHANGED <<limit, query_type, plSize, playlist_id, result, next_page_token,
                 calls, ret, raised, logged, searchResp, response>>

\* details, from its request on (also when slider calls it)
DetailsExecute ==
  /\ pc = "details"
  /\ calls' = Append(calls, [api |-> "videos.list", id |-> vid_id])
  /\ \E resp \in VideosResponses(vid_id) :
       /\ response' = resp
       /\ ret' = DetailsResult(resp, vid_id)
       /\ logged' = IF resp.status = "HttpError" THEN "HttpError" ELSE logged
  /\ pc' = "done"
  /\ UNCHANGED <<op, vid_id, limit, query_type, plSize, playlist_id, result,
                 next_page_token, raised, searchResp>>

----------------------------------------------------------------------------
(* slider *)

\* Python's items[i] for a list of n items: the 1-based position read, 0 for
\* IndexError (a negative i counts from the end)
PyIndex(n, i) ==
  IF 0 <= i /\ i < n THEN i + 1
  ELSE IF i < 0 /\ 0 - n <= i THEN n + i + 1
  ELSE 0

SliderTargetFirst(items, i) == 1

\* target_item = items[query_type]
SliderTarget(items, i) == PyIndex(Len(items), i)

\* the search queries a caller passes to slider
Queries == {<<"s", "o", "n", "g">>}

\* the result indexes a caller passes to slider
QueryTypes == (0 - (NumResults + 1))..(NumResults + 1)

\* slider, up to the details call it ends with
Slider(q, qt) ==
  /\ pc = "idle"
  /\ op' = "slider"
  /\ query_type' = qt
  /\ calls' = Append(calls, [api |-> "search.list", q |-> q,
                            maxResults |-> SearchMaxResults])
  /\ \E resp \in SearchResponses :
       /\ searchResp' = resp
       /\ IF resp.status = "HttpError"
          THEN /\ logged' = "HttpError"
               /\ ret' = RetNone
               /\ pc' = "done"
               /\ UNCHANGED <<vid_id, raised>>
          ELSE IF resp.items = <<>> \/ Len(resp.items) <= qt
          THEN /\ ret' = RetNone
               /\ pc' = "done"
               /\ UNCHANGED <<vid_id, raised, logged>>
          ELSE IF SliderTarget(resp.items, qt) = 0
          THEN /\ raised' = "IndexError"
               /\ pc' = "done"
               /\ UNCHANGED <<vid_id, ret, logged>>
          ELSE /\ vid_id' = resp.items[SliderTarget(resp.items, qt)].videoId
               /\ pc' = "details"
               /\ UNCHANGED <<ret, raised, logged>>
  /\ UNCHANGED <<limit, plSize, playlist_id, result, next_page_token, response>>

----------------------------------------------------------------------------
(* playlist *)

\* s.split(sep)[0]
BeforeFirst(s, sep) ==
  IF Find(s, sep) = 0 THEN s ELSE SubSeq(s, 1, Find(s, sep) - 1)

\* link.split("list=")[1].split("&")[0] when "list=" is in link, else link
PlaylistId(link) ==
  LET marker == <<"l", "i", "s", "t", "=">>
      at == Find(link, marker)
  IN IF at = 0 THEN link
     ELSE BeforeFirst(BeforeFirst(SubSeq(link, at + Len(marker), Len(link)), marker),
                      <<"&">>)

\* the links a caller passes to playlist
PlaylistLinks ==
  {<<"P", "L", "x", "1">>,
   <<"h", "t", "t", "p", "s", ":", "/", "/", "y", "o", "u", "t", "u", "b", "e", ".", "c", "o", "m", "/", "p", "l", "a", "y", "l", "i", "s", "t", "?", "l", "i", "s", "t", "=", "P", "L", "x", "1", "&", "i", "n", "d", "e", "x", "=", "2">>}

PageSizeUncapped(lim, collected) == PageCap

\* maxResults=min(limit - len(result), 50)
PageSize(lim, collected) == Min(lim - collected, PageCap)

PageTokenDropped(token) == 0

\* pageToken=next_page_token
PageToken(token) == token

PlaylistOnErrorPartial(collected) == collected

\* except HttpError: return []
PlaylistOnError(collected) == <<>>

RetList(items) == [kind |-> "list", items |-> items]

\* playlist, up to the while loop
CallPlaylist(link, lim, n) ==
  /\ pc = "idle"
  /\ op' = "playlist"
  /\ playlist_id' = PlaylistId(link)
  /\ limit' = lim
  /\ plSize' = n
  /\ result' = <<>>
  /\ next_page_token' = 0
  /\ pc' = "playlist"
  /\ UNCHANGED <<vid_id, query_type, calls, ret, raised, logged, searchResp, response>>

\* one iteration of the while loop: a page is requested and its items collected
PlaylistIterate ==
  /\ pc = "playlist"
  /\ Len(result) < limit
  /\ LET maxResults == PageSize(limit, Len(result)) IN
       /\ calls' = Append(calls, [api |-> "playlistItems.list",
                                 playlistId |-> playlist_id,
                                 maxResults |-> maxResults,
                                 pageToken |-> PageToken(next_page_token)])
       /\ \E resp \in PlaylistResponses(plSize, maxResults,
                                        PageToken(next_page_token)) :
            /\ response' = resp
            /\ IF resp.status = "HttpError"
               THEN /\ logged' = "HttpError"
                    /\ ret' = RetList(PlaylistOnError(result))
                    /\ pc' = "done"
                    /\ UNCHANGED <<result, next_page_token>>
               ELSE /\ result' = result \o resp.items
                    /\ next_page_token' = resp.nextPageToken
                    /\ IF resp.nextPageToken = 0
                       THEN ret' = RetList(result') /\ pc' = "done"
                       ELSE UNCHANGED <<ret, pc>>
                    /\ UNCHANGED logged
  /\ UNCHANGED <<op, vid_id, limit, query_type, plSize, playlist_id, raised, searchResp>>

\* the while condition fails: return result
PlaylistReturn ==
  /\ pc = "playlist"
  /\ ~(Len(result) < limit)
  /\ ret' = RetList(result)
  /\ pc' = "done"
  /\ UNCHANGED <<op, vid_id, limit, query_type, plSize, playlist_id, result,
                 next_page_token, calls, raised, logged, searchResp, response>>

----------------------------------------------------------------------------
(* download *)

\* self.base
Base == <<"h", "t", "t", "p", "s", ":", "/", "/", "w", "w", "w", ".", "y", "o", "u", "t", "u", "b", "e", ".", "c", "o", "m", "/", "w", "a", "t", "c", "h", "?", "v", "=">>

\* the id extract_info reports for a link
InfoId(link) == extract_id_from_url(link)

\* the extension extract_info reports for the selected format
InfoExt(id, video) ==
  IF video THEN <<"m", "p", "4">>
  ELSE IF id = IdA THEN <<"w", "e", "b", "m">> ELSE <<"m", "4", "a">>

\* os.path.join("downloads", f"{info['id']}.{info['ext']}")
DownloadPath(id, ext) == <<"d", "o", "w", "n", "l", "o", "a", "d", "s", "/">> \o id \o <<".">> \o ext

ExistsNever(xyz, files) == FALSE

\* os.path.exists(xyz)
Exists(xyz, files) == xyz \in files

NoCall == [outcome |-> "none"]

\* the (link, videoid) pairs a caller passes to download
DownloadInputs ==
  {[link |-> IdA, videoid |-> TRUE],
   [link |-> IdB, videoid |-> TRUE],
   [link |-> <<"h", "t", "t", "p", "s", ":", "/", "/", "y", "o", "u", "t", "u", ".", "b", "e", "/">> \o IdA, videoid |-> FALSE]}

\* download: video_dl when video is set, audio_dl otherwise
Download(in, video) ==
  LET link == IF in.videoid THEN Base \o in.link ELSE in.link
      id == InfoId(link)
      xyz == DownloadPath(id, InfoExt(id, video))
      outcomes == {"ExtractorError"} \cup
                  (IF Exists(xyz, fs) THEN {"exists"}
                   ELSE {"downloaded", "DownloadError"})
  IN \E outcome \in outcomes :
       /\ fs' = IF outcome = "downloaded" THEN fs \cup {xyz} ELSE fs
       /\ dlPrev' = dlLast
       /\ dlLast' = [outcome |-> outcome, in |-> in, video |-> video,
                     ret |-> IF outcome \in {"exists", "downloaded"}
                             THEN <<xyz, TRUE>> ELSE None]
       /\ UNCHANGED <<apiVars, urlVars, exVars, durVars, step>>

----------------------------------------------------------------------------
(* The inputs of the pure functions *)

\* the entities of a message are at most MaxEntities
MaxEntities == 2

\* a url is the host followed by at most MaxParts parts
MaxParts == 4

\* the durations are P<d>DT<h>H<m>M<s>S with d <= MaxDays, h <= MaxHours
MaxDays == 5

MaxHours == 2

SeqsUpTo(S, n) == UNION {[1..k -> S] : k \in 0..n}

RECURSIVE Concat(_)
Concat(parts) == IF parts = <<>> THEN <<>> ELSE Head(parts) \o Concat(Tail(parts))

\* the entities a message can carry; link is the url of its text links
EntityChoices(link) ==
  {[type |-> "URL", offset |-> 0, length |-> 2, url |-> None],
   [type |-> "URL", offset |-> 1, length |-> 2, url |-> None],
   [type |-> "URL", offset |-> 2, length |-> 1, url |-> None],
   [type |-> "TEXT_LINK", offset |-> 0, length |-> 2, url |-> link],
   [type |-> "BOLD", offset |-> 0, length |-> 1, url |-> None]}

\* a text message has entities, a media message has caption entities
TextMessage(text, e, r) ==
  [text |-> text, entities |-> e, caption_entities |-> <<>>, reply_to_message |-> r]

MediaMessage(text, e, r) ==
  [text |-> text, entities |-> <<>>, caption_entities |-> e, reply_to_message |-> r]

ReplyText == <<"w", "x", "y", "z">>

ReplyLink == <<"r", ".", "i", "o">>

MessageText == <<"a", "b", "c", "d">>

MessageLink == <<"c", ".", "i", "o">>

\* the messages a message can reply to
ReplyMessages ==
  {TextMessage(ReplyText, e, <<>>) : e \in SeqsUpTo(EntityChoices(ReplyLink), MaxEntities)}
  \cup
  {MediaMessage(ReplyText, e, <<>>) : e \in SeqsUpTo(EntityChoices(ReplyLink), MaxEntities)}

Host == <<"h", "t", "t", "p", "s", ":", "/", "/", "w", "w", "w", ".", "y", "o", "u", "t", "u", "b", "e", ".", "c", "o", "m">>

LongSegment == <<"a", "t", "t", "r", "i", "b", "u", "t", "i", "o", "n", "_", "l", "i", "n", "k">>

Tokens ==
  {<<"/">>, <<"?", "v", "=">>, <<"&", "v", "=">>, <<"w", "a", "t", "c", "h">>,
   <<"&", "t", "=", "1">>, IdA, IdB, LongSegment}

ExtractUrls == {Host \o Concat(parts) : parts \in SeqsUpTo(Tokens, MaxParts)}

IsoDurations == [d : 0..MaxDays, h : 0..MaxHours, m : 0..59, s : 0..59]

----------------------------------------------------------------------------
(* The pure functions, applied *)

ApplyUrl ==
  /\ step = ""
  /\ step' = "url"
  /\ urlRet' = url(message_1)
  /\ UNCHANGED <<apiVars, message_1, exVars, durVars, dlVars>>

ApplyExtract ==
  /\ step = ""
  /\ step' = "extract"
  /\ exRet' = extract_id_from_url(exUrl)
  /\ UNCHANGED <<apiVars, urlVars, exUrl, durVars, dlVars>>

\* lines 85-94 of details
ApplyDuration ==
  /\ step = ""
  /\ step' = "duration"
  /\ duration_sec' = parse_duration(duration_iso)
  /\ duration_min' = FormatDuration(parse_duration(duration_iso))
  /\ UNCHANGED <<apiVars, urlVars, exVars, duration_iso, dlVars>>

----------------------------------------------------------------------------
(* Specifications *)

NoMessage ==
  [text |-> <<>>, entities |-> <<>>, caption_entities |-> <<>>, reply_to_message |-> <<>>]

ApiInit ==
  /\ pc = "idle"
  /\ op = ""
  /\ vid_id = <<>>
  /\ limit = 0
  /\ query_type = 0
  /\ plSize = 0
  /\ playlist_id = <<>>
  /\ result = <<>>
  /\ next_page_token = 0
  /\ calls = <<>>
  /\ ret = RetPending
  /\ raised = ""
  /\ logged = ""
  /\ searchResp = NoResponse
  /\ response = NoResponse

UrlIdle == message_1 = NoMessage /\ urlRet = None

ExIdle == exUrl = <<>> /\ exRet = <<>>

DurIdle ==
  /\ duration_iso = [d |-> 0, h |-> 0, m |-> 0, s |-> 0]
  /\ duration_sec = 0
  /\ duration_min = <<>>

DlInit == fs = {} /\ dlPrev = NoCall /\ dlLast = NoCall

Init == ApiInit /\ UrlIdle /\ ExIdle /\ DurIdle /\ DlInit /\ step = ""

ApiRest == UNCHANGED <<urlVars, exVars, durVars, dlVars, step>>

Next ==
  \/ (\E in \in DetailsInputs : CallDetails(in)) /\ ApiRest
  \/ DetailsExecute /\ ApiRest
  \/ (\E q \in Queries, qt \in QueryTypes : Slider(q, qt)) /\ ApiRest
  \/ (\E link \in PlaylistLinks, lim \in MinLimit..MaxLimit, n \in 0..MaxItems :
        CallPlaylist(link, lim, n)) /\ ApiRest
  \/ PlaylistIterate /\ ApiRest
  \/ PlaylistReturn /\ ApiRest

\* the API-backed calls: details, slider, playlist
Spec == Init /\ [][Next]_vars

\* the same, with a call in flight running on: the awaited request completes
\* and the coroutine resumes
FairSpec ==
  /\ Spec
  /\ WF_vars((PlaylistIterate \/ PlaylistReturn) /\ ApiRest)
  /\ WF_vars(DetailsExecute /\ ApiRest)

InitUrl ==
  /\ ApiInit /\ ExIdle /\ DurIdle /\ DlInit /\ step = ""
  /\ \E r \in {<<>>} \cup {<<m>> : m \in ReplyMessages},
        e \in SeqsUpTo(EntityChoices(MessageLink), MaxEntities) :
       \/ message_1 = TextMessage(MessageText, e, r)
       \/ message_1 = MediaMessage(MessageText, e, r)
  /\ urlRet = None

\* url applied to every message
SpecUrl == InitUrl /\ [][ApplyUrl]_vars

InitExtract ==
  /\ ApiInit /\ UrlIdle /\ DurIdle /\ DlInit /\ step = ""
  /\ exUrl \in ExtractUrls
  /\ exRet = <<>>

\* _extract_id_from_url applied to every url
SpecExtract == InitExtract /\ [][ApplyExtract]_vars

InitDuration ==
  /\ ApiInit /\ UrlIdle /\ ExIdle /\ DlInit /\ step = ""
  /\ duration_iso \in IsoDurations
  /\ duration_sec = 0
  /\ duration_min = <<>>

\* the duration conversion of details applied to every duration
SpecDuration == InitDuration /\ [][ApplyDuration]_vars

NextDownload == \E in \in DownloadInputs, video \in BOOLEAN : Download(in, video)

\* download, called again and again
SpecDownload == Init /\ [][NextDownload]_vars

----------------------------------------------------------------------------
(* Properties of url *)

\* the message carries no URL entity and no text-link entity
NoLinkEntity(m) ==
  /\ \A k \in 1..Len(m.entities) : m.entities[k].type \notin {"URL", "TEXT_LINK"}
  /\ \A k \in 1..Len(m.caption_entities) :
       m.caption_entities[k].type \notin {"URL", "TEXT_LINK"}

\* C1: when the current message has a URL entity, url returns the text of the
\* current message covered by its first URL entity, whatever the offset of that
\* entity and whatever the reply-parent carries.
C1_CurrentMessageFirst ==
  (step = "url" /\ \E k \in 1..Len(message_1.entities) : message_1.entities[k].type = "URL")
  => LET first == CHOOSE k \in 1..Len(message_1.entities) :
                    /\ message_1.entities[k].type = "URL"
                    /\ \A j \in 1..(k - 1) : message_1.entities[j].type # "URL"
         e == message_1.entities[first]
     IN urlRet = Slice(message_1.text, e.offset, e.offset + e.length)

\* C9: a message without URL and text-link entities, whose reply-parent (if
\* any) has none either, gives None.
C9_NoEntityGivesNone ==
  (/\ step = "url"
   /\ NoLinkEntity(message_1)
   /\ \A k \in 1..Len(message_1.reply_to_message) :
        NoLinkEntity(message_1.reply_to_message[k]))
  => urlRet = None

\* C9 happens: entities of another type on the message and on its reply-parent
C9_Witness ==
  /\ step = "url"
  /\ NoLinkEntity(message_1)
  /\ message_1.entities # <<>>
  /\ message_1.reply_to_message # <<>>
  /\ NoLinkEntity(message_1.reply_to_message[1])
  /\ message_1.reply_to_message[1].caption_entities # <<>>
  /\ urlRet = None

----------------------------------------------------------------------------
(* Properties of _extract_id_from_url *)

\* x is in u at position i as the query parameter v=<x> or as the path
\* segment /<x>, and ends there
IdAt(u, x, i) ==
  /\ OccursAt(u, x, i)
  /\ (i + Len(x) > Len(u) \/ u[i + Len(x)] \notin IdChars)
  /\ \/ OccursAt(u, <<"?", "v", "=">>, i - 3)
     \/ OccursAt(u, <<"&", "v", "=">>, i - 3)
     \/ OccursAt(u, <<"/">>, i - 1)

HasId(u, x) == \E i \in 1..Len(u) : IdAt(u, x, i)

\* C8: a url that carries one id, as v=<id> or as a bare path segment, gives
\* that id whatever precedes it; a url the pattern does not match is returned
\* unchanged.
C8_ExtractsTheId ==
  step = "extract" =>
    /\ (HasId(exUrl, IdA) /\ ~HasId(exUrl, IdB)) => exRet = IdA
    /\ (HasId(exUrl, IdB) /\ ~HasId(exUrl, IdA)) => exRet = IdB
    /\ (~\E i \in 1..Len(exUrl) : PatternAt(exUrl, i)) => exRet = exUrl

----------------------------------------------------------------------------
(* Properties of the duration conversion *)

RECURSIVE Fields(_)
\* the fields of a string, separated by ":"
Fields(str) ==
  IF Find(str, <<":">>) = 0 THEN <<str>>
  ELSE <<SubSeq(str, 1, Find(str, <<":">>) - 1)>>
       \o Fields(SubSeq(str, Find(str, <<":">>) + 1, Len(str)))

DigitValue(c) == CHOOSE i \in 0..9 : Digits[i + 1] = c

RECURSIVE Value(_)
\* the number a string of decimal digits denotes
Value(str) ==
  IF str = <<>> THEN 0
  ELSE Value(SubSeq(str, 1, Len(str) - 1)) * 10 + DigitValue(str[Len(str)])

AllDigits(str) == \A k \in 1..Len(str) : \E i \in 1..10 : Digits[i] = str[k]

\* C7: d seconds are rendered MM:SS below one hour and HH:MM:SS from one hour
\* on, zero-padded to two digits, with H = d div 3600, M = (d mod 3600) div 60,
\* S = d mod 60; 45 gives 00:45, 125 gives 02:05, 3661 gives 01:01:01.
C7_DurationDisplay ==
  step = "duration" =>
    LET d == duration_sec
        f == Fields(duration_min)
    IN /\ d = duration_iso.d * 86400 + duration_iso.h * 3600
               + duration_iso.m * 60 + duration_iso.s
       /\ \A k \in 1..Len(f) : AllDigits(f[k])
       /\ IF d < 3600
          THEN /\ Len(f) = 2
               /\ Len(f[1]) = 2 /\ Value(f[1]) = d \div 60
               /\ Len(f[2]) = 2 /\ Value(f[2]) = d % 60
          ELSE /\ Len(f) = 3
               /\ Len(f[1]) >= 2 /\ Value(f[1]) = d \div 3600
               /\ (d \div 3600 < 100 => Len(f[1]) = 2)
               /\ Len(f[2]) = 2 /\ Value(f[2]) = (d % 3600) \div 60
               /\ Len(f[3]) = 2 /\ Value(f[3]) = d % 60
               /\ Value(f[1]) * 3600 + Value(f[2]) * 60 + Value(f[3]) = d
       /\ (d = 45 => duration_min = <<"0", "0", ":", "4", "5">>)
       /\ (d = 125 => duration_min = <<"0", "2", ":", "0", "5">>)
       /\ (d = 3661 => duration_min = <<"0", "1", ":", "0", "1", ":", "0", "1">>)

\* C7 happens: one hour, one minute and one second
C7_Witness ==
  /\ step = "duration"
  /\ duration_sec = 3661
  /\ duration_min = <<"0", "1", ":", "0", "1", ":", "0", "1">>

----------------------------------------------------------------------------
(* Properties of slider *)

IssuedDetails == \E i \in 1..Len(calls) : calls[i].api = "videos.list"

\* C3: with a result index outside 0..n-1 for a search response of n results,
\* slider returns None, raises nothing and issues no details lookup.
C3_SliderBoundsChecked ==
  (/\ op = "slider"
   /\ searchResp.status = "ok"
   /\ query_type \notin 0..(Len(searchResp.items) - 1))
  => /\ raised = ""
     /\ pc = "done"
     /\ ret = RetNone
     /\ ~IssuedDetails

\* C4: with a result index in 0..n-1, slider issues the search and then one
\* details lookup for the id of the result at that index, and returns what
\* details returns for it.
C4_SliderReturnsDetails ==
  (/\ op = "slider"
   /\ pc = "done"
   /\ searchResp.status = "ok"
   /\ query_type \in 0..(Len(searchResp.items) - 1))
  => LET id == searchResp.items[query_type + 1].videoId IN
       /\ Len(calls) = 2
       /\ calls[1].api = "search.list"
       /\ calls[2] = [api |-> "videos.list", id |-> id]
       /\ raised = ""
       /\ ret = DetailsResult(response, id)
       /\ ret # RetNone =>
            /\ ret.vid_id = id
            /\ ret.title = [src |-> "videos.list", id |-> id]
            /\ ret.duration_sec = parse_duration(response.items[1].duration)

\* C4 happens: the third result is selected and its details come back
C4_Witness ==
  /\ op = "slider"
  /\ pc = "done"
  /\ query_type = 2
  /\ Len(calls) = 2
  /\ ret # RetNone
  /\ ret.vid_id = SearchVid(3)

----------------------------------------------------------------------------
(* Properties of the API-backed calls *)

ApiFailed == searchResp.status = "HttpError" \/ response.status = "HttpError"

\* C5: a failed request of details, slider or playlist raises nothing: details
\* and slider return None and playlist returns the empty list, also when a
\* later page fails.
C5_ApiFailureNotRaised ==
  ApiFailed =>
    /\ raised = ""
    /\ pc = "done"
    /\ op \in {"details", "slider"} => ret = RetNone
    /\ op = "playlist" => ret = RetList(<<>>)

\* C5 happens: the second page of a playlist fails after a first page was collected
C5_Witness ==
  /\ op = "playlist"
  /\ pc = "done"
  /\ response.status = "HttpError"
  /\ Len(calls) >= 2
  /\ result # <<>>
  /\ ret = RetList(<<>>)

\* C2, as claimed: playlist returns at most limit ids, and fewer than limit
\* only when the playlist has fewer than limit items or a page response
\* carries no continuation token.
C2_AtMostLimit ==
  (op = "playlist" /\ pc = "done") =>
    /\ Len(ret.items) <= limit
    /\ Len(ret.items) < limit =>
         \/ plSize < limit
         \/ response.status = "ok" /\ response.nextPageToken = 0

\* C2, amended: playlist returns at most limit ids (none when limit is
\* negative), and fewer than limit only when the playlist has fewer than limit
\* items, a page response carries no continuation token, or a request fails
\* (then the list is empty).
C2_AtMostLimitOrFailed ==
  (op = "playlist" /\ pc = "done") =>
    /\ Len(ret.items) <= (IF limit < 0 THEN 0 ELSE limit)
    /\ Len(ret.items) < limit =>
         \/ plSize < limit
         \/ response.status = "ok" /\ response.nextPageToken = 0
         \/ response.status = "HttpError" /\ ret.items = <<>>

\* C2 happens: more than one page, and exactly limit ids of a longer playlist
C2_Witness ==
  /\ op = "playlist"
  /\ pc = "done"
  /\ Len(calls) >= 2
  /\ limit > PageCap
  /\ plSize > limit
  /\ Len(ret.items) = limit

\* C10: every page request asks for min(limit - collected, 50) items, between
\* 1 and 50, with the token of the previous response (none at first); the loop
\* goes on only while fewer than limit ids are collected and the last response
\* carried a token; with limit <= 0 nothing is requested and the empty list is
\* returned; and the call ends.
C10_PaginationTerminates ==
  /\ [][(op' = "playlist" /\ calls' # calls) =>
          LET request == calls'[Len(calls')] IN
            /\ request.maxResults = Min(limit - Len(result), PageCap)
            /\ request.maxResults \in 1..PageCap
            /\ request.pageToken = (IF calls = <<>> THEN 0 ELSE response.nextPageToken)
            /\ Len(result) < limit]_vars
  /\ []((op = "playlist" /\ pc = "playlist" /\ calls # <<>>) =>
          (response.status = "ok" /\ response.nextPageToken # 0))
  /\ []((op = "playlist" /\ limit <= 0) =>
          (calls = <<>> /\ (pc = "done" => ret = RetList(<<>>))))
  /\ []((pc = "playlist") => <>(pc = "done"))

\* C10 happens: a second page was requested and the pagination ended before limit
C10_Witness ==
  /\ op = "playlist"
  /\ pc = "done"
  /\ Len(calls) >= 2
  /\ response.status = "ok"
  /\ response.nextPageToken = 0
  /\ Len(ret.items) < limit

----------------------------------------------------------------------------
(* Properties of download *)

Returned(call) == call.outcome \in {"exists", "downloaded"}

\* C6: a call of download that follows a call that returned, for the same link
\* and mode, attempts no download and leaves the files as they are, and
\* returns the path the first call returned.
C6_SecondCallSkipsDownload ==
  [][(/\ Returned(dlLast)
      /\ dlPrev' = dlLast
      /\ dlLast'.in = dlLast.in
      /\ dlLast'.video = dlLast.video)
     => /\ dlLast'.outcome \notin {"downloaded", "DownloadError"}
        /\ fs' = fs
        /\ Returned(dlLast') => dlLast'.ret = dlLast.ret]_vars

\* C6 happens: a download, then the same call again
C6_Witness ==
  /\ dlPrev.outcome = "downloaded"
  /\ dlLast.outcome = "exists"
  /\ dlLast.in = dlPrev.in
  /\ dlLast.video = dlPrev.video
  /\ dlLast.ret = dlPrev.ret

====
